---- MODULE Spec2Model ----
(***************************************************************************)
(* Topology controllers of sssd_test_framework/topology_controllers.py.   *)
(*                                                                         *)
(* One controller instance is followed through its life: construction,    *)
(* init(), topology_setup() (statement by statement, every remote call    *)
(* may succeed or raise), the tests with their per-test teardown(), and   *)
(* topology_teardown().  The inherited BackupTopologyController and the   *)
(* retry_command decorator are not part of the source file; they are      *)
(* modelled by their contract.                                            *)
(***************************************************************************)
EXTENDS Integers, Sequences, FiniteSets, TLC

VARIABLES
    name,                    \* self.name: the topology this controller drives
    provisioned_topologies,  \* self.multihost.provisioned_topologies
    provisioned,             \* self.provisioned
    pc,                      \* position in the controller's life
    ip,                      \* index of the next statement of topology_setup
    log,                     \* remote calls issued so far, with their outcome
    hosts,                   \* state of every host: the set of changes made to it
    backup_data,             \* self.backup_data: host -> <<snapshot>> or <<>>
    thrown,                  \* the exception a statement of topology_setup raised
    error,                   \* the exception topology_setup propagated to its caller
    restores,                \* restore_vanilla() calls made by the error wrapper
    attempts,                \* calls of the function wrapped by retry_command
    delays,                  \* sleeps made by retry_command
    calls,                   \* what teardown()/topology_teardown() called
    tests                    \* tests run so far

vars == <<name, provisioned_topologies, provisioned, pc, ip, log, hosts,
          backup_data, thrown, error, restores, attempts, delays, calls, tests>>

(***************************************************************************)
(* Bounds                                                                  *)
(***************************************************************************)
MaxTests == 2

(***************************************************************************)
(* Topologies and hosts                                                    *)
(***************************************************************************)
\* One name per controller class that overrides topology_setup.  Samba and
\* IPA-trust-Samba subclass the AD controllers without changing anything.
Names == {"ipa", "ad", "ipa-trust-ad", "ipa-trust-ipa"}

\* The hosts topology_setup receives.
HostsOf(n) ==
    CASE n = "ipa"           -> {"client", "ipa"}
      [] n = "ad"            -> {"client", "provider"}
      [] n = "ipa-trust-ad"  -> {"client", "ipa", "trusted"}
      [] n = "ipa-trust-ipa" -> {"client", "ipa", "trusted"}

\* A host nobody touched: the state its pristine backup holds.
Vanilla == {}

NoError == [op |-> "none", host |-> "-", arg |-> "-", res |-> "-"]

(***************************************************************************)
(* Statements of the topology_setup bodies                                 *)
(***************************************************************************)
Stmt(op, host, arg) == [op |-> op, host |-> host, arg |-> arg]

\* client.fs.rm(...) x2
RemoveKerberos ==
    << Stmt("rm", "client", "/etc/krb5.conf"),
       Stmt("rm", "client", "/etc/krb5.keytab") >>

\* client.fs.backup(...) x2
BackupIPAClientFiles ==
    << Stmt("fs_backup", "client", "/etc/ipa"),
       Stmt("fs_backup", "client", "/var/lib/ipa-client") >>

RealmJoin == << Stmt("exec", "client", "realm join") >>

\* super().topology_setup()
SuperTopologySetup == << Stmt("super_setup", "-", "topology_setup") >>

\* if "ipa" not in self.multihost.provisioned_topologies
SkipJoin_OwnName == name \in provisioned_topologies

SkipJoin == "ipa" \in provisioned_topologies

EnrollIPAClient ==
    IF SkipJoin THEN << >>
    ELSE RemoveKerberos \o BackupIPAClientFiles \o RealmJoin

IPA_body_SnapshotFirst ==
    RemoveKerberos \o BackupIPAClientFiles \o SuperTopologySetup \o RealmJoin

IPA_body ==
    RemoveKerberos \o BackupIPAClientFiles \o RealmJoin \o SuperTopologySetup

AD_body ==
    RemoveKerberos \o RealmJoin \o SuperTopologySetup

IPATrustAD_body ==
    << Stmt("kinit", "ipa", "admin"),
       Stmt("trust_add", "ipa", "ipa trust-add") >>
    \o EnrollIPAClient \o SuperTopologySetup

PrepareIPATrustIPA ==
    << Stmt("exec", "ipa", "dnf copr enable"),
       Stmt("exec", "client", "dnf copr enable"),
       Stmt("exec", "trusted", "dnf copr enable"),
       Stmt("exec", "ipa", "dnf update"),
       Stmt("exec", "trusted", "dnf update"),
       Stmt("exec", "client", "dnf update"),
       Stmt("exec", "ipa", "systemctl restart sssd-kcm"),
       Stmt("exec", "trusted", "systemctl restart sssd-kcm") >>

TrustIPA ==
    << Stmt("kinit", "ipa", "admin"),
       Stmt("exec", "ipa", "ipa trust-add") >>

IPATrustIPA_body_NoClientBackup ==
    PrepareIPATrustIPA \o TrustIPA \o EnrollIPAClient \o
    << Stmt("host_backup", "ipa", "backup"),
       Stmt("host_backup", "trusted", "backup") >>

IPATrustIPA_body_EarlyBackup ==
    PrepareIPATrustIPA \o
    << Stmt("host_backup", "ipa", "backup") >> \o TrustIPA \o EnrollIPAClient \o
    << Stmt("host_backup", "trusted", "backup"),
       Stmt("host_backup", "client", "backup") >>

IPATrustIPA_body ==
    PrepareIPATrustIPA \o TrustIPA \o EnrollIPAClient \o
    << Stmt("host_backup", "ipa", "backup"),
       Stmt("host_backup", "trusted", "backup"),
       Stmt("host_backup", "client", "backup") >>

Body ==
    CASE name = "ipa"           -> IPA_body
      [] name = "ad"            -> AD_body
      [] name = "ipa-trust-ad"  -> IPATrustAD_body
      [] name = "ipa-trust-ipa" -> IPATrustIPA_body

Cur == Body[ip]

AtStmt(op) == pc = "setup" /\ ip \in 1..Len(Body) /\ Cur.op = op

\* @retry_command(max_retries=20, delay=5, match_stderr=...)
max_retries_More == 20 + 5

max_retries == 20

\* match_stderr: the failures the wrapper retries
Transient_Never(res) == FALSE

Transient_Always(res) == res # "ok"

Transient(res) == res = "cifs"

\* retry_command: a failed call is repeated when its stderr matches and
\* attempts are left
ShouldRetry(res, n) == Transient(res) /\ n < max_retries

(***************************************************************************)
(* What a remote call does to its host                                     *)
(***************************************************************************)
Mod(s, ok) ==
    CASE s.op = "rm"                        -> IF ok THEN {"krb5_removed"} ELSE {}
      [] s.op = "kinit"                     -> IF ok THEN {"ticket"} ELSE {}
      [] s.arg = "realm join"               -> IF ok THEN {"joined"} ELSE {"half_joined"}
      [] s.arg = "ipa trust-add"            -> IF ok THEN {"trust"} ELSE {"half_trusted"}
      [] s.arg = "dnf copr enable"          -> IF ok THEN {"copr"} ELSE {}
      [] s.arg = "dnf update"               -> IF ok THEN {"updated"} ELSE {"half_updated"}
      [] OTHER                              -> {}

Entry(s, res) == [op |-> s.op, host |-> s.host, arg |-> s.arg, res |-> res]

Touch(s, ok) ==
    IF s.host \in DOMAIN hosts
    THEN [hosts EXCEPT ![s.host] = @ \cup Mod(s, ok)]
    ELSE hosts

(***************************************************************************)
(* BackupTopologyController (inherited)                                    *)
(***************************************************************************)
\* restore_vanilla(): every host back to its pristine backup
RestoreVanilla(hs) == [h \in DOMAIN hs |-> Vanilla]

\* restore(self.backup_data): every host with a snapshot back to it
Restore(hs, bd) == [h \in DOMAIN hs |-> IF bd[h] # << >> THEN bd[h][1] ELSE hs[h]]

\* @BackupTopologyController.restore_vanilla_on_error: an exception raised in
\* the decorated topology_setup is caught by the wrapper
Raise_Undecorated(e) == thrown' = e /\ pc' = "raised"

Raise(e) == thrown' = e /\ pc' = "rollback"

\* the statement returned: on to the next one, or topology_setup returns
Advance ==
    IF ip = Len(Body) THEN pc' = "returned" /\ ip' = ip
    ELSE pc' = "setup" /\ ip' = ip + 1

(***************************************************************************)
(* Initial state: the controller after __init__                            *)
(***************************************************************************)
Init ==
    /\ name \in Names
    /\ provisioned_topologies \in SUBSET Names
    /\ provisioned = FALSE
    /\ pc = "new"
    /\ ip = 0
    /\ log = << >>
    /\ hosts = [h \in HostsOf(name) |-> Vanilla]
    /\ backup_data = [h \in HostsOf(name) |-> << >>]
    /\ thrown = NoError
    /\ error = NoError
    /\ restores = 0
    /\ attempts = 0
    /\ delays = 0
    /\ calls = << >>
    /\ tests = 0

(***************************************************************************)
(* ProvisionedBackupTopologyController                                     *)
(***************************************************************************)
init ==
    /\ pc = "new"
    /\ provisioned' = (name \in provisioned_topologies)
    /\ pc' = "ready"
    /\ UNCHANGED <<name, provisioned_topologies, ip, log, hosts, backup_data,
                   thrown, error, restores, attempts, delays, calls, tests>>

\* if self.provisioned: log and return
AlreadyProvisioned_Ignored == FALSE

AlreadyProvisioned == provisioned

\* entry of the four topology_setup methods
topology_setup ==
    /\ pc = "ready"
    /\ IF AlreadyProvisioned
       THEN pc' = "returned" /\ ip' = 0
       ELSE pc' = "setup" /\ ip' = 1
    /\ UNCHANGED <<name, provisioned_topologies, provisioned, log, hosts,
                   backup_data, thrown, error, restores, attempts, delays,
                   calls, tests>>

\* a remote call returns or raises
Outcome ==
    /\ \E ok \in BOOLEAN :
        /\ log' = Append(log, Entry(Cur, IF ok THEN "ok" ELSE "fail"))
        /\ hosts' = Touch(Cur, ok)
        /\ IF ok THEN Advance /\ UNCHANGED thrown
           ELSE Raise(Entry(Cur, "fail")) /\ UNCHANGED ip
    /\ UNCHANGED <<name, provisioned_topologies, provisioned, backup_data,
                   error, restores, attempts, delays, calls, tests>>

\* client.fs.rm(path)
fs_rm ==
    /\ AtStmt("rm")
    /\ Outcome

\* client.fs.backup(path)
fs_backup ==
    /\ AtStmt("fs_backup")
    /\ Outcome

\* host.conn.exec(argv)
conn_exec ==
    /\ AtStmt("exec")
    /\ Outcome

\* ipa.kinit()
kinit ==
    /\ AtStmt("kinit")
    /\ Outcome

\* self.trust_add(ipa, trusted): one call of the wrapped function
trust_add ==
    /\ AtStmt("trust_add")
    /\ attempts = delays
    /\ \E res \in {"ok", "cifs", "other"} :
        /\ attempts' = attempts + 1
        /\ log' = Append(log, Entry(Cur, res))
        /\ hosts' = IF res = "cifs" THEN hosts ELSE Touch(Cur, res = "ok")
        /\ IF res = "ok" THEN Advance /\ UNCHANGED thrown
           ELSE IF ShouldRetry(res, attempts')
                THEN UNCHANGED <<pc, ip, thrown>>
                ELSE Raise(Entry(Cur, res)) /\ UNCHANGED ip
    /\ UNCHANGED <<name, provisioned_topologies, provisioned, backup_data,
                   error, restores, delays, calls, tests>>

\* retry_command: time.sleep(delay) before the next attempt
retry_sleep ==
    /\ AtStmt("trust_add")
    /\ attempts > delays
    /\ delays' = delays + 1
    /\ log' = Append(log, [op |-> "sleep", host |-> "-", arg |-> "delay", res |-> "ok"])
    /\ UNCHANGED <<name, provisioned_topologies, provisioned, pc, ip, hosts,
                   backup_data, thrown, error, restores, attempts, calls, tests>>

\* self.backup_data[host] = host.backup()
host_backup ==
    /\ AtStmt("host_backup")
    /\ \E ok \in BOOLEAN :
        /\ log' = Append(log, Entry(Cur, IF ok THEN "ok" ELSE "fail"))
        /\ IF ok
           THEN /\ backup_data' = [backup_data EXCEPT ![Cur.host] = << hosts[Cur.host] >>]
                /\ Advance /\ UNCHANGED thrown
           ELSE /\ Raise(Entry(Cur, "fail"))
                /\ UNCHANGED <<ip, backup_data>>
    /\ UNCHANGED <<name, provisioned_topologies, provisioned, hosts, error,
                   restores, attempts, delays, calls, tests>>

\* super().topology_setup(): the inherited step that snapshots all hosts of
\* the topology
super_topology_setup ==
    /\ AtStmt("super_setup")
    /\ \E ok \in BOOLEAN :
        LET e == [op |-> "host_backup", host |-> "all", arg |-> "backup",
                  res |-> IF ok THEN "ok" ELSE "fail"]
        IN /\ log' = Append(log, e)
           /\ IF ok
              THEN /\ backup_data' = [h \in DOMAIN backup_data |-> << hosts[h] >>]
                   /\ Advance
                   /\ UNCHANGED thrown
              ELSE /\ Raise(e)
                   /\ UNCHANGED <<ip, backup_data>>
    /\ UNCHANGED <<name, provisioned_topologies, provisioned, hosts, error,
                   restores, attempts, delays, calls, tests>>

\* restore_vanilla_on_error, except branch: self.restore_vanilla(); raise
rollback ==
    /\ pc = "rollback"
    /\ hosts' = RestoreVanilla(hosts)
    /\ restores' = restores + 1
    /\ error' = thrown
    /\ pc' = "raised"
    /\ UNCHANGED <<name, provisioned_topologies, provisioned, ip, log,
                   backup_data, thrown, attempts, delays, calls, tests>>

\* a test changes the hosts it runs against
run_test ==
    /\ pc = "returned"
    /\ tests < MaxTests
    /\ \E h \in DOMAIN hosts : hosts' = [hosts EXCEPT ![h] = @ \cup {"dirty"}]
    /\ tests' = tests + 1
    /\ pc' = "test"
    /\ UNCHANGED <<name, provisioned_topologies, provisioned, ip, log,
                   backup_data, thrown, error, restores, attempts, delays, calls>>

teardown_AlwaysInherited ==
    /\ pc = "test"
    /\ hosts' = Restore(hosts, backup_data)
    /\ calls' = Append(calls, [method |-> "teardown", did |-> "super"])
    /\ pc' = "returned"
    /\ UNCHANGED <<name, provisioned_topologies, provisioned, ip, log,
                   backup_data, thrown, error, restores, attempts, delays, tests>>

teardown ==
    /\ pc = "test"
    /\ IF provisioned
       THEN /\ hosts' = RestoreVanilla(hosts)
            /\ calls' = Append(calls, [method |-> "teardown", did |-> "restore_vanilla"])
       ELSE /\ hosts' = Restore(hosts, backup_data)
            /\ calls' = Append(calls, [method |-> "teardown", did |-> "super"])
    /\ pc' = "returned"
    /\ UNCHANGED <<name, provisioned_topologies, provisioned, ip, log,
                   backup_data, thrown, error, restores, attempts, delays, tests>>

topology_teardown ==
    /\ pc = "returned"
    /\ IF provisioned
       THEN /\ calls' = Append(calls, [method |-> "topology_teardown", did |-> "nothing"])
            /\ UNCHANGED <<hosts, backup_data>>
       ELSE /\ calls' = Append(calls, [method |-> "topology_teardown", did |-> "super"])
            /\ hosts' = RestoreVanilla(hosts)
            /\ backup_data' = [h \in DOMAIN backup_data |-> << >>]
    /\ pc' = "done"
    /\ UNCHANGED <<name, provisioned_topologies, provisioned, ip, log,
                   thrown, error, restores, attempts, delays, tests>>

SetupStep ==
    \/ topology_setup
    \/ fs_rm
    \/ fs_backup
    \/ conn_exec
    \/ kinit
    \/ trust_add
    \/ retry_sleep
    \/ host_backup
    \/ super_topology_setup
    \/ rollback

Next ==
    \/ init
    \/ topology_setup
    \/ fs_rm
    \/ fs_backup
    \/ conn_exec
    \/ kinit
    \/ trust_add
    \/ retry_sleep
    \/ host_backup
    \/ super_topology_setup
    \/ rollback
    \/ run_test
    \/ teardown
    \/ topology_teardown

Spec == Init /\ [][Next]_vars

\* topology_setup is one synchronous call: once entered, its next statement runs
LiveSpec == Spec /\ WF_vars(SetupStep)

(***************************************************************************)
(* Reading the log                                                         *)
(***************************************************************************)
Idx == 1..Len(log)

IsEnrol(e) == e.op \in {"rm", "fs_backup"} \/ e.arg = "realm join"

IsTrustAdd(e) == e.arg = "ipa trust-add"

IsSnapshot(e) == e.op = "host_backup"

Has(P(_)) == \E i \in Idx : P(log[i])

HasOk(P(_)) == \E i \in Idx : P(log[i]) /\ log[i].res = "ok"

CountOk(P(_)) == Cardinality({i \in Idx : P(log[i]) /\ log[i].res = "ok"})

NoBackups == \A h \in DOMAIN backup_data : backup_data[h] = << >>

AllBackups == \A h \in HostsOf(name) : backup_data[h] # << >>

AllVanilla == \A h \in DOMAIN hosts : hosts[h] = Vanilla

Failed == pc \in {"rollback", "raised"}

TrustTopology == name \in {"ipa-trust-ad", "ipa-trust-ipa"}

\* the calls of trust_add and the sleeps of its retry wrapper, in order
TrustLog == SelectSeq(log, LAMBDA e : e.op \in {"trust_add", "sleep"})

TrustAddSucceeded == \E i \in Idx : log[i].op = "trust_add" /\ log[i].res = "ok"

(***************************************************************************)
(* Claims                                                                  *)
(***************************************************************************)

\* C1: on a provisioned controller topology_setup issues no remote call,
\* takes no snapshot and triggers no rollback: it returns at once with the
\* hosts and backup_data as they were before the call.
C1_ProvisionedSetupIsNoOp ==
    provisioned =>
        /\ log = << >>
        /\ NoBackups
        /\ restores = 0 /\ attempts = 0 /\ error = NoError
        /\ pc \notin {"setup", "rollback", "raised"}
        /\ (pc = "returned" /\ tests = 0 => AllVanilla)

C1_Witness == provisioned /\ pc = "returned" /\ tests = 0 /\ name = "ipa-trust-ipa"

\* C2: when a statement of a non-provisioned topology_setup raises, the hosts
\* are restored to their pristine state exactly once and the exception that
\* was raised is the one propagated; a setup that returns normally leaves no
\* host half-joined, half-trusted or half-updated.
C2_RollbackOnceThenReraise ==
    /\ restores <= 1
    /\ (pc = "rollback" => restores = 0 /\ thrown = log[Len(log)] /\ thrown.res # "ok")
    /\ (pc = "raised" =>
            /\ restores = 1
            /\ thrown # NoError
            /\ error = thrown
            /\ error = log[Len(log)]
            /\ AllVanilla)
    /\ (pc \in {"returned", "test", "done"} =>
            /\ error = NoError /\ thrown = NoError /\ restores = 0
            /\ \A h \in DOMAIN hosts :
                 hosts[h] \cap {"half_joined", "half_trusted", "half_updated"} = {})

C2_Witness == pc = "raised" /\ name = "ad" /\ thrown.arg = "realm join" /\ restores = 1

\* C3: after a non-provisioned topology_setup returned, backup_data holds a
\* snapshot of every host passed to it, taken in the state setup left it in.
C3_SnapshotOfEveryHost ==
    (~provisioned /\ pc \in {"returned", "test"}) =>
        /\ AllBackups
        /\ (tests = 0 => \A h \in HostsOf(name) : backup_data[h] = << hosts[h] >>)

C3_Witness ==
    /\ name = "ipa-trust-ipa" /\ ~provisioned /\ pc = "returned"
    /\ \A h \in {"client", "ipa", "trusted"} : backup_data[h] # << >>

\* C4: in IPA-trust-AD setup, trust_add that fails with the transient CIFS
\* error N-1 times and succeeds on call N (N = 1..20) is called exactly N
\* times with one sleep between consecutive calls, is never given up before
\* the 20th call, and setup goes on with the enrolment and the snapshot.
C4_TransientRetriedUntilSuccess ==
    name = "ipa-trust-ad" =>
        /\ \A i \in 1..Len(TrustLog) :
              TrustLog[i].op = (IF i % 2 = 1 THEN "trust_add" ELSE "sleep")
        /\ (thrown.op = "trust_add" /\ thrown.res = "cifs" => attempts >= 20)
        /\ TrustAddSucceeded =>
              /\ attempts \in 1..20
              /\ delays = attempts - 1
              /\ Len(TrustLog) = 2 * attempts - 1
              /\ \A i \in 1..Len(TrustLog) - 1 :
                    TrustLog[i].op = "trust_add" => TrustLog[i].res = "cifs"
              /\ thrown.op # "trust_add"
              /\ ip > 2
              /\ (pc = "setup" => Cur.op \in {"rm", "fs_backup", "exec", "super_setup"})
              /\ (pc = "returned" =>
                    /\ AllBackups
                    /\ ("ipa" \notin provisioned_topologies =>
                            HasOk(LAMBDA e : e.arg = "realm join")))

C4_Witness ==
    /\ name = "ipa-trust-ad" /\ TrustAddSucceeded /\ attempts = 20 /\ delays = 19
    /\ pc = "returned" /\ "ipa" \notin provisioned_topologies

\* C5: in IPA-trust-AD setup, a trust_add failure that is not the transient
\* CIFS error is never retried: no call and no sleep follows it, it is the
\* exception setup raises, and neither the enrolment nor the snapshot runs.
\* When it is the first call's failure, trust_add was called exactly once.
C5_OtherErrorNotRetried ==
    name = "ipa-trust-ad" =>
        \A i \in 1..Len(TrustLog) :
            TrustLog[i].res = "other" =>
                /\ i = Len(TrustLog)
                /\ Failed
                /\ thrown = TrustLog[i]
                /\ (i = 1 => attempts = 1 /\ delays = 0)
                /\ ~Has(IsEnrol) /\ ~Has(IsSnapshot)
                /\ NoBackups

C5_Witness ==
    /\ name = "ipa-trust-ad" /\ pc = "raised" /\ attempts = 1 /\ delays = 0
    /\ error.op = "trust_add" /\ error.res = "other"

\* C6: in IPA-trust-AD setup trust_add is retried at most 20 times; when the
\* transient error outlasts the retries it is raised and setup ends rolled
\* back; and a setup that was entered always ends, returned or raised.
C6_RetriesBoundedAndSetupEnds ==
    /\ [](name = "ipa-trust-ad" =>
            /\ attempts - 1 <= 20
            /\ delays <= 20
            /\ (thrown.res = "cifs" =>
                    /\ Failed
                    /\ \A i \in 1..Len(TrustLog) : TrustLog[i].res \in {"cifs", "ok"}
                    /\ (pc = "raised" => error = thrown /\ AllVanilla /\ restores = 1)))
    /\ (pc = "setup" ~> pc \in {"returned", "raised"})

C6_Witness ==
    /\ name = "ipa-trust-ad" /\ pc = "raised" /\ error.res = "cifs"
    /\ attempts >= 20 /\ AllVanilla

\* C7: teardown looks at the provisioned flag only.  Provisioned:
\* topology_teardown does nothing and teardown calls restore_vanilla.
\* Not provisioned: both call the inherited method and nothing else.
C7_TeardownByProvisionedFlag ==
    /\ \A i \in DOMAIN calls :
          calls[i].did =
              IF ~provisioned THEN "super"
              ELSE IF calls[i].method = "teardown" THEN "restore_vanilla"
              ELSE "nothing"
    /\ (pc = "returned" /\ tests > 0 =>
            IF provisioned THEN AllVanilla
            ELSE \A h \in DOMAIN hosts :
                    backup_data[h] # << >> => hosts[h] = backup_data[h][1])
    /\ (pc = "done" /\ provisioned => NoBackups /\ restores = 0)
    /\ Len(calls) = tests + (IF pc = "done" THEN 1 ELSE 0) - (IF pc = "test" THEN 1 ELSE 0)

C7_Witness ==
    /\ provisioned /\ pc = "done" /\ Len(calls) = 2
    /\ calls[1].did = "restore_vanilla" /\ calls[2].did = "nothing"

\* C8: in a non-provisioned trust topology with "ipa" in
\* provisioned_topologies, no enrolment command (rm, fs backup, realm join)
\* is ever issued, while kinit, trust-add and the snapshot still run; without
\* "ipa" in the set, a setup that returned has issued all five of them.
C8_SkipJoinWhenIPAProvisioned ==
    TrustTopology =>
        /\ ("ipa" \in provisioned_topologies => ~Has(IsEnrol))
        /\ (pc = "returned" /\ ~provisioned =>
                /\ HasOk(LAMBDA e : e.op = "kinit")
                /\ HasOk(IsTrustAdd)
                /\ AllBackups
                /\ CountOk(IsEnrol) =
                       IF "ipa" \in provisioned_topologies THEN 0 ELSE 5)

C8_Witness ==
    /\ name = "ipa-trust-ipa" /\ "ipa" \in provisioned_topologies
    /\ ~provisioned /\ pc = "returned" /\ HasOk(IsTrustAdd) /\ AllBackups

\* the place of a remote call in the order the claim C9 states
Rank(e) ==
    CASE e.arg = "dnf copr enable"            -> 1
      [] e.arg = "dnf update"                 -> 2
      [] e.arg = "systemctl restart sssd-kcm" -> 3
      [] e.op = "kinit"                       -> 4
      [] e.arg = "ipa trust-add"              -> 5
      [] e.op = "sleep"                       -> 5
      [] e.op = "rm"                          -> 6
      [] e.op = "fs_backup"                   -> 7
      [] e.arg = "realm join"                 -> 8
      [] e.op = "host_backup"                 -> 9

JoinExpected == name \in {"ipa", "ad"} \/ "ipa" \notin provisioned_topologies

\* C9: the remote calls of a setup come in the fixed order (repository
\* enable, update, kcm restart, kinit, trust-add, rm, fs backup, realm join,
\* snapshot), a call is made only when every earlier one succeeded, and no
\* snapshot is taken before the join (unless skipped) and the trust succeeded.
C9_FixedOrder ==
    /\ \A i \in Idx : i < Len(log) => Rank(log[i]) <= Rank(log[i + 1])
    /\ \A i \in Idx : i < Len(log) =>
          \/ log[i].res = "ok"
          \/ log[i].op = "trust_add" /\ log[i].res = "cifs"
    /\ (Has(IsSnapshot) /\ JoinExpected => HasOk(LAMBDA e : e.arg = "realm join"))
    /\ (Has(IsSnapshot) /\ TrustTopology =>
            HasOk(IsTrustAdd) /\ HasOk(LAMBDA e : e.op = "kinit"))
    /\ (Has(LAMBDA e : e.arg = "realm join") =>
            /\ CountOk(LAMBDA e : e.op = "rm") = 2
            /\ CountOk(LAMBDA e : e.op = "fs_backup") = IF name = "ad" THEN 0 ELSE 2)
    /\ (name = "ad" => ~Has(LAMBDA e : e.op = "fs_backup"))
    /\ (TrustTopology /\ Has(IsEnrol) => HasOk(IsTrustAdd))
    /\ (Has(IsTrustAdd) => HasOk(LAMBDA e : e.op = "kinit"))
    /\ (name = "ipa-trust-ipa" /\ Has(LAMBDA e : e.op = "kinit") =>
            CountOk(LAMBDA e : Rank(e) < 4) = 8)

C9_Witness ==
    /\ name = "ipa-trust-ipa" /\ pc = "returned" /\ ~provisioned
    /\ "ipa" \notin provisioned_topologies /\ Len(log) = 18

\* C10 as stated: a setup that ended in an error left no entry in backup_data.
C10_NoEntryAfterFailedSetup ==
    pc = "raised" => NoBackups

\* C10 amended: backup_data is written by the final snapshot step only.  A
\* setup that raises before that step leaves backup_data empty; a setup that
\* raises in a per-host backup call keeps exactly the entries of the hosts
\* whose backup call had already succeeded.
C10_WrittenOnlyBySnapshotStep ==
    /\ \A h \in DOMAIN backup_data :
          backup_data[h] # << >> =>
              \E i \in Idx : IsSnapshot(log[i]) /\ log[i].host \in {h, "all"}
                             /\ log[i].res = "ok"
    /\ (Failed =>
          /\ (thrown.op # "host_backup" => NoBackups)
          /\ \A h \in DOMAIN backup_data :
                backup_data[h] # << >> <=>
                    \E i \in Idx : IsSnapshot(log[i]) /\ log[i].host = h
                                   /\ log[i].res = "ok" /\ i < Len(log))

C10_Witness ==
    /\ name = "ipa-trust-ipa" /\ pc = "raised"
    /\ error.op = "host_backup" /\ error.host = "trusted"
    /\ backup_data["ipa"] # << >> /\ backup_data["trusted"] = << >>

====
